---- MODULE Spec2Model ----
(***************************************************************************)
(* A model of the feedback record store (datastore.py), the response       *)
(* sender (sender.py) and the region report (psi_mail_stats.py).           *)
(*                                                                         *)
(* Each store collection is a set of documents.  A single pymongo call     *)
(* (insert_one, find_one, find_one_and_delete, find_one_and_update,        *)
(* update_one) is one atomic step; a function that makes two calls is two  *)
(* steps, and other processes may run between them.                        *)
(*                                                                         *)
(* The components do not share state, so each has a specification of its   *)
(* own over the same variables; the variables of the other components      *)
(* keep their initial values.                                              *)
(***************************************************************************)
EXTENDS Integers, Sequences, FiniteSets, TLC

VARIABLES
    now,              \* datetime.datetime.utcnow(), in seconds
    ticks,            \* how often the clock advanced
    autoresponder,    \* the `autoresponder` collection
    ar_next_id,       \* the next _id the collection hands out
    ar_iter,          \* per process: the state of its get_autoresponder_iterator generator
    ar_yielded,       \* per process: the _ids its generators yielded, in order
    ar_handling,      \* per process: the _id its consumer is handling, or 0
    ar_failed,        \* the _ids whose handling failed
    response_blacklist, \* the `response_blacklist` collection
    bl_next_id,       \* the next _id the collection hands out
    bl_log,           \* the check_and_add calls made, in order, with what each returned
    bl_expired,       \* the addresses an entry of which the TTL index has removed
    diagnostic_info,  \* the `diagnostic_info` collection
    di_next_id,       \* the next _id the collection hands out
    di_pc,            \* per process: where it is in insert_diagnostic_info
    di_obj,           \* per process: the Metadata.id of the record it is inserting
    di_log,           \* the insert_diagnostic_info calls that returned, in order
    di_started,       \* how many insert_diagnostic_info calls were made
    di_overlap,       \* the ids for which two calls ran at the same time
    di_expired,       \* the ids a record of which the TTL index has removed
    stats,            \* the `stats` collection
    st_next_id,       \* the next _id the collection hands out
    wm_sets,          \* the timestamps set_stats_last_send_time was called with, in order
    wm_gets,          \* what get_stats_last_send_time returned, in order
    email_diagnostic_info, \* the `email_diagnostic_info` collection
    em_next_id,       \* the next _id the collection hands out
    em_pc,            \* per process: where its pass over the email queue is
    em_visited,       \* per process: the _ids its cursor has returned in this pass
    em_cur,           \* per process: the entry it is sending
    em_sent,          \* the _ids of the entries a send succeeded for
    em_failed,        \* the _ids of the entries a send failed for
    sr_pc,            \* where send_response is
    sr_args,          \* the arguments of the send_response call
    sr_body,          \* its local `body`: the list of (subtype, content) parts
    sr_raw,           \* its local `raw_email`
    sr_first,         \* the first message it assembled
    sr_out,           \* the message it handed to the transport
    gs_pc,            \* where _get_stats_helper is: the cursor it reads, or the end
    gs_rec,           \* the record its loop body is working on
    gs_checks,        \* the loop body's local `response_checks`
    raw_stats,        \* its local `raw_stats`: group key -> accumulated values
    gs_stats,         \* the rows it returns
    gs_records,       \* how many records its cursors have returned
    gs_entries,       \* how many DiagnosticHistory entries it has read
    gs_seen,          \* per group: the raw response-check entries read, by kind
    gs_held,          \* the records of the collection met so far, by kind
    ms_pc,            \* where the report's main block is
    ms_table,         \* the index in `tables` of the table it is printing
    ms_columns,       \* its local `columns`: how many columns were queried
    table_dict,       \* its local `table_dict`: region -> column -> value
    ms_totals,        \* what the total queries of the table returned
    ms_printed,       \* the rows it printed for the table, in order
    db_rows,          \* the rows logged in `connected` and `page_views`
    wq_pc,            \* where the report's transaction is
    wq_now,           \* current_timestamp of the report's transaction
    wq_step,          \* how many (table, column) passes of the report have run
    wq_result,        \* what the two queries of each pass returned
    wq_matched        \* the rows each pass's WHERE clause selected

clockVars == <<now, ticks>>
autoVars == <<autoresponder, ar_next_id, ar_iter, ar_yielded, ar_handling, ar_failed>>
blVars == <<response_blacklist, bl_next_id, bl_log, bl_expired>>
diagVars == <<diagnostic_info, di_next_id, di_pc, di_obj, di_log, di_started,
              di_overlap, di_expired>>
wmVars == <<stats, st_next_id, wm_sets, wm_gets>>
emailVars == <<email_diagnostic_info, em_next_id, em_pc, em_visited, em_cur,
               em_sent, em_failed>>
sendVars == <<sr_pc, sr_args, sr_body, sr_raw, sr_first, sr_out>>
statsVars == <<gs_pc, gs_rec, gs_checks, raw_stats, gs_stats, gs_records,
               gs_entries, gs_seen, gs_held>>
mailVars == <<ms_pc, ms_table, ms_columns, table_dict, ms_totals, ms_printed>>
windowVars == <<db_rows, wq_pc, wq_now, wq_step, wq_result, wq_matched>>
vars == <<clockVars, autoVars, blVars, diagVars, wmVars, emailVars, sendVars,
          statsVars, mailVars, windowVars>>

(***************************************************************************)
(* Bounds                                                                  *)
(***************************************************************************)
NumProcs == 2
MaxAutoEntries == 3
MaxTicks == 3
TickSecs == 43200
MaxBlacklistCalls == 4
MaxDiagCalls == 3
MaxTimestamp == 2
MaxWatermarkSets == 3
MaxWatermarkGets == 3
MaxEmailEntries == 1
SmallBody == 1000
HeaderLen == 300
MaxStatsRecords == 2
MaxStatsEntries == 2
ResponseMillis == 120
NumRegions == 12
MaxRows == 2
MaxWindowTicks == 5

Procs == 1..NumProcs
None == "None"

\* The elements of a sequence that satisfy nothing in particular: its range.
Range(s) == {s[i] : i \in 1..Len(s)}

\* How often x occurs in sequence s.
Occurrences(s, x) == Cardinality({i \in 1..Len(s) : s[i] = x})

RECURSIVE SumOver(_, _)
SumOver(S, f) ==
    IF S = {} THEN 0
    ELSE LET x == CHOOSE y \in S : TRUE IN f[x] + SumOver(S \ {x}, f)

(***************************************************************************)
(* The clock                                                               *)
(***************************************************************************)
ClockInit ==
    /\ now = 0
    /\ ticks = 0

\* Time passes.
Tick(secs) ==
    /\ ticks < MaxTicks
    /\ now' = now + secs
    /\ ticks' = ticks + 1

\* A TTL index (create_index('datetime', expireAfterSeconds=lifetime)): the
\* store may remove a document once its datetime is `lifetime` seconds old.
Expirable(coll, lifetime) == {rec \in coll : now - rec.datetime >= lifetime}

(***************************************************************************)
(* The autoresponder queue                                                 *)
(***************************************************************************)
EmailInfos == {None, "info"}
RecordIds == {None, "rec"}

AutoInit ==
    /\ autoresponder = {}
    /\ ar_next_id = 1
    /\ ar_iter = [p \in Procs |-> "none"]
    /\ ar_yielded = [p \in Procs |-> <<>>]
    /\ ar_handling = [p \in Procs |-> 0]
    /\ ar_failed = {}

\* insert_autoresponder_entry(email_info, diagnostic_info_record_id)
insert_autoresponder_entry(email_info, diagnostic_info_record_id) ==
    /\ ar_next_id <= MaxAutoEntries
    /\ IF email_info = None /\ diagnostic_info_record_id = None
       THEN UNCHANGED <<autoresponder, ar_next_id>>
       ELSE /\ autoresponder' = autoresponder \cup
                   {[_id |-> ar_next_id,
                     diagnostic_info_record_id |-> diagnostic_info_record_id,
                     email_info |-> email_info,
                     datetime |-> now]}
            /\ ar_next_id' = ar_next_id + 1
    /\ UNCHANGED <<ar_iter, ar_yielded, ar_handling, ar_failed, clockVars, blVars, diagVars, wmVars, emailVars, sendVars, statsVars, mailVars, windowVars>>

InsertAutoresponderEntry ==
    \E e \in EmailInfos, d \in RecordIds : insert_autoresponder_entry(e, d)

\* A caller obtains a generator: nothing runs until its first next().
GetAutoresponderIterator(p) ==
    /\ ar_iter[p] \in {"none", "exhausted"}
    /\ ar_iter' = [ar_iter EXCEPT ![p] = "active"]
    /\ UNCHANGED <<autoresponder, ar_next_id, ar_yielded, ar_handling, ar_failed, clockVars, blVars, diagVars, wmVars, emailVars, sendVars, statsVars, mailVars, windowVars>>

\* A mutant: the record is read and left in the collection.
FindOneKeep(coll, rec) == coll

\* find_one_and_delete: the collection after the store removed `rec`.
FindOneAndDelete(coll, rec) == coll \ {rec}

\* One next() of the generator: one find_one_and_delete(filter={}). The
\* consumer calls it when it is done with the entry it was given before.
AutoresponderNext(p) ==
    /\ ar_iter[p] = "active"
    /\ ar_handling[p] = 0
    /\ IF autoresponder = {}
       THEN /\ ar_iter' = [ar_iter EXCEPT ![p] = "exhausted"]
            /\ UNCHANGED <<autoresponder, ar_yielded, ar_handling>>
       ELSE \E next_rec \in autoresponder :
               /\ autoresponder' = FindOneAndDelete(autoresponder, next_rec)
               /\ ar_yielded' = [ar_yielded EXCEPT ![p] = Append(@, next_rec._id)]
               /\ ar_handling' = [ar_handling EXCEPT ![p] = next_rec._id]
               /\ UNCHANGED ar_iter
    /\ UNCHANGED <<ar_next_id, ar_failed, clockVars, blVars, diagVars, wmVars, emailVars, sendVars, statsVars, mailVars, windowVars>>

\* The consumer of the generator handled the entry it was given and sent
\* the response.
AutoresponderHandled(p) ==
    /\ ar_handling[p] # 0
    /\ ar_handling' = [ar_handling EXCEPT ![p] = 0]
    /\ UNCHANGED <<autoresponder, ar_next_id, ar_iter, ar_yielded, ar_failed,
                   clockVars, blVars, diagVars, wmVars, emailVars, sendVars, statsVars,
                   mailVars, windowVars>>

\* Its handling of the entry, or the send of the response, failed: the error
\* is logged and the consumer goes on to the next entry.
AutoresponderFailed(p) ==
    /\ ar_handling[p] # 0
    /\ ar_failed' = ar_failed \cup {ar_handling[p]}
    /\ ar_handling' = [ar_handling EXCEPT ![p] = 0]
    /\ UNCHANGED <<autoresponder, ar_next_id, ar_iter, ar_yielded,
                   clockVars, blVars, diagVars, wmVars, emailVars, sendVars, statsVars,
                   mailVars, windowVars>>

AutoNext ==
    \/ InsertAutoresponderEntry
    \/ \E p \in Procs : AutoresponderHandled(p)
    \/ \E p \in Procs : AutoresponderFailed(p)
    \/ \E p \in Procs : GetAutoresponderIterator(p)
    \/ \E p \in Procs : AutoresponderNext(p)

(***************************************************************************)
(* The response blacklist                                                  *)
(***************************************************************************)
BLACKLIST_LIFETIME_SECS == 60*60*24

Addresses == {"a@example.com", "b@example.com"}

BlacklistInit ==
    /\ response_blacklist = {}
    /\ bl_next_id = 1
    /\ bl_log = <<>>
    /\ bl_expired = {}

\* A mutant: find_one_and_update without upsert=True inserts nothing.
NoUpsert(coll, address) == coll

\* The insert half of find_one_and_update(..., upsert=True): with no document
\* matching the filter, one is created from the filter and $setOnInsert.
Upsert(coll, address) ==
    coll \cup {[_id |-> bl_next_id, address |-> address, datetime |-> now]}

\* check_and_add_response_address_blacklist(address), called by process p:
\* one find_one_and_update, which returns the document as it was before.
check_and_add_response_address_blacklist(p, address) ==
    /\ Len(bl_log) < MaxBlacklistCalls
    /\ LET matches == {rec \in response_blacklist : rec.address = address}
           \* bool(match): no document matched (None) or the one that did
           blacklisted == matches # {}
       IN /\ IF blacklisted
             THEN UNCHANGED <<response_blacklist, bl_next_id>>
             ELSE /\ response_blacklist' = Upsert(response_blacklist, address)
                  /\ bl_next_id' = bl_next_id + 1
          /\ bl_log' = Append(bl_log, [proc |-> p, address |-> address,
                                       result |-> blacklisted])
    /\ UNCHANGED <<bl_expired, clockVars, autoVars, diagVars, wmVars, emailVars, sendVars, statsVars, mailVars, windowVars>>

\* The TTL index on response_blacklist removes an expired entry.
ExpireBlacklist ==
    \E rec \in Expirable(response_blacklist, BLACKLIST_LIFETIME_SECS) :
        /\ response_blacklist' = response_blacklist \ {rec}
        /\ bl_expired' = bl_expired \cup {rec.address}
        /\ UNCHANGED <<bl_next_id, bl_log, clockVars, autoVars, diagVars, wmVars, emailVars, sendVars, statsVars, mailVars, windowVars>>

BlacklistTick == Tick(TickSecs) /\ UNCHANGED <<autoVars, blVars, diagVars, wmVars, emailVars, sendVars, statsVars, mailVars, windowVars>>

BlacklistNext ==
    \/ \E p \in Procs, a \in Addresses : check_and_add_response_address_blacklist(p, a)
    \/ ExpireBlacklist
    \/ BlacklistTick

(***************************************************************************)
(* The diagnostic_info store                                               *)
(***************************************************************************)
DIAGNOSTIC_DATA_LIFETIME_SECS == 60*60*24*7*26

\* obj.get("Metadata", {}).get("id", None)
FeedbackIds == {None, "id1", "id2"}

DiagInit ==
    /\ diagnostic_info = {}
    /\ di_next_id = 1
    /\ di_pc = [p \in Procs |-> "idle"]
    /\ di_obj = [p \in Procs |-> None]
    /\ di_log = <<>>
    /\ di_started = 0
    /\ di_overlap = {}
    /\ di_expired = {}

\* A mutant: the lookup finds nothing.
FindNothing(coll, feedback_id) == {}

\* diagnostic_info.find_one({"Metadata.id": feedback_id}): the documents the
\* filter matches (find_one returns one of them, or None when there is none).
FindByMetadataId(coll, feedback_id) == {rec \in coll : rec.metadata_id = feedback_id}

\* What a returned call leaves in the log.
Returned(p, feedback_id, returned, error) ==
    [proc |-> p, metadata_id |-> feedback_id, returned |-> returned, error |-> error]

\* insert_diagnostic_info(obj), lines 124-132: the id check and the lookup.
InsertDiagnosticInfoLookup(p, feedback_id) ==
    /\ di_pc[p] = "idle"
    /\ di_started < MaxDiagCalls
    /\ di_started' = di_started + 1
    /\ di_overlap' = IF \E q \in Procs : di_pc[q] = "insert" /\ di_obj[q] = feedback_id
                     THEN di_overlap \cup {feedback_id}
                     ELSE di_overlap
    /\ IF feedback_id = None
       THEN /\ di_log' = Append(di_log, Returned(p, feedback_id, "None", "missing id"))
            /\ UNCHANGED <<di_pc, di_obj>>
       ELSE IF FindByMetadataId(diagnostic_info, feedback_id) # {}
       THEN /\ di_log' = Append(di_log, Returned(p, feedback_id, "None", "duplicate id"))
            /\ UNCHANGED <<di_pc, di_obj>>
       ELSE /\ di_pc' = [di_pc EXCEPT ![p] = "insert"]
            /\ di_obj' = [di_obj EXCEPT ![p] = feedback_id]
            /\ UNCHANGED di_log
    /\ UNCHANGED <<diagnostic_info, di_next_id, di_expired, clockVars, autoVars, blVars, wmVars, emailVars, sendVars, statsVars, mailVars, windowVars>>

\* insert_diagnostic_info(obj), lines 134-135: the timestamp and insert_one.
InsertDiagnosticInfoInsert(p) ==
    /\ di_pc[p] = "insert"
    /\ diagnostic_info' = diagnostic_info \cup
           {[_id |-> di_next_id, metadata_id |-> di_obj[p], datetime |-> now]}
    /\ di_next_id' = di_next_id + 1
    /\ di_log' = Append(di_log, Returned(p, di_obj[p], "_id", ""))
    /\ di_pc' = [di_pc EXCEPT ![p] = "idle"]
    /\ di_obj' = [di_obj EXCEPT ![p] = None]
    /\ UNCHANGED <<di_started, di_overlap, di_expired, clockVars, autoVars, blVars, wmVars, emailVars, sendVars, statsVars, mailVars, windowVars>>

\* The TTL index on diagnostic_info removes an expired record.
ExpireDiagnosticInfo ==
    \E rec \in Expirable(diagnostic_info, DIAGNOSTIC_DATA_LIFETIME_SECS) :
        /\ diagnostic_info' = diagnostic_info \ {rec}
        /\ di_expired' = di_expired \cup {rec.metadata_id}
        /\ UNCHANGED <<di_next_id, di_pc, di_obj, di_log, di_started, di_overlap,
                       clockVars, autoVars, blVars, wmVars, emailVars, sendVars, statsVars, mailVars, windowVars>>

DiagTick ==
    /\ Tick(DIAGNOSTIC_DATA_LIFETIME_SECS \div 2)
    /\ UNCHANGED <<autoVars, blVars, diagVars, wmVars, emailVars, sendVars, statsVars, mailVars, windowVars>>

DiagNext ==
    \/ \E p \in Procs, id \in FeedbackIds : InsertDiagnosticInfoLookup(p, id)
    \/ \E p \in Procs : InsertDiagnosticInfoInsert(p)
    \/ ExpireDiagnosticInfo
    \/ DiagTick

(***************************************************************************)
(* The stats watermark                                                     *)
(***************************************************************************)
Timestamps == 0..MaxTimestamp

WatermarkInit ==
    /\ stats = {}
    /\ st_next_id = 1
    /\ wm_sets = <<>>
    /\ wm_gets = <<>>

\* A mutant: insert_one instead of an upserting update.
InsertAlways(coll, timestamp) ==
    coll \cup {[_id |-> st_next_id, last_send_time |-> timestamp]}

\* stats.update_one({}, {'$set': {'last_send_time': timestamp}}, upsert=True):
\* one document matching {} is updated; with none, one is created.
UpdateOneUpsert(coll, timestamp) ==
    IF coll = {}
    THEN {[_id |-> st_next_id, last_send_time |-> timestamp]}
    ELSE LET rec == CHOOSE r \in coll : TRUE
         IN (coll \ {rec}) \cup {[rec EXCEPT !.last_send_time = timestamp]}

\* set_stats_last_send_time(timestamp)
set_stats_last_send_time(timestamp) ==
    /\ Len(wm_sets) < MaxWatermarkSets
    /\ stats' = UpdateOneUpsert(stats, timestamp)
    /\ st_next_id' = IF Cardinality(stats') > Cardinality(stats)
                     THEN st_next_id + 1 ELSE st_next_id
    /\ wm_sets' = Append(wm_sets, timestamp)
    /\ UNCHANGED <<wm_gets, clockVars, autoVars, blVars, diagVars, emailVars, sendVars, statsVars, mailVars, windowVars>>

\* get_stats_last_send_time(): rec['last_send_time'] if rec else None
get_stats_last_send_time ==
    /\ Len(wm_gets) < MaxWatermarkGets
    /\ \/ /\ stats = {}
          /\ wm_gets' = Append(wm_gets, [none |-> TRUE, value |-> 0])
       \/ \E rec \in stats :
             wm_gets' = Append(wm_gets, [none |-> FALSE, value |-> rec.last_send_time])
    /\ UNCHANGED <<stats, st_next_id, wm_sets, clockVars, autoVars, blVars, diagVars,
                   emailVars, sendVars, statsVars, mailVars, windowVars>>

WatermarkNext ==
    \/ \E t \in Timestamps : set_stats_last_send_time(t)
    \/ get_stats_last_send_time

(***************************************************************************)
(* The email queue                                                         *)
(***************************************************************************)
EMAIL_DIAGNOSTIC_INFO_LIFETIME_SECS == 24*60*60

EmailInit ==
    /\ email_diagnostic_info = {}
    /\ em_next_id = 1
    /\ em_pc = [p \in Procs |-> "idle"]
    /\ em_visited = [p \in Procs |-> {}]
    /\ em_cur = [p \in Procs |-> 0]
    /\ em_sent = {}
    /\ em_failed = {}

\* insert_email_diagnostic_info(diagnostic_info_record_id, email_id, email_subject)
insert_email_diagnostic_info ==
    /\ em_next_id <= MaxEmailEntries
    /\ email_diagnostic_info' = email_diagnostic_info \cup
           {[_id |-> em_next_id, datetime |-> now]}
    /\ em_next_id' = em_next_id + 1
    /\ UNCHANGED <<em_pc, em_visited, em_cur, em_sent, em_failed,
                   clockVars, autoVars, blVars, diagVars, wmVars, sendVars, statsVars, mailVars, windowVars>>

\* get_email_diagnostic_info_iterator(): a cursor over the whole collection.
get_email_diagnostic_info_iterator(p) ==
    /\ em_pc[p] = "idle"
    /\ em_pc' = [em_pc EXCEPT ![p] = "iterating"]
    /\ em_visited' = [em_visited EXCEPT ![p] = {}]
    /\ UNCHANGED <<email_diagnostic_info, em_next_id, em_cur, em_sent, em_failed,
                   clockVars, autoVars, blVars, diagVars, wmVars, sendVars, statsVars, mailVars, windowVars>>

\* A mutant: the cursor pops what it returns, as the autoresponder's does.
FindPops(coll, rec) == coll \ {rec}

\* email_diagnostic_info.find(): the collection after the cursor returned `rec`.
FindLeaves(coll, rec) == coll

\* The cursor returns the next document, or ends the pass when it has
\* returned every document of the collection.
EmailCursorNext(p) ==
    /\ em_pc[p] = "iterating"
    /\ LET left == {rec \in email_diagnostic_info : rec._id \notin em_visited[p]}
       IN IF left = {}
          THEN /\ em_pc' = [em_pc EXCEPT ![p] = "idle"]
               /\ UNCHANGED <<email_diagnostic_info, em_visited, em_cur>>
          ELSE \E rec \in left :
                  /\ email_diagnostic_info' = FindLeaves(email_diagnostic_info, rec)
                  /\ em_visited' = [em_visited EXCEPT ![p] = @ \cup {rec._id}]
                  /\ em_cur' = [em_cur EXCEPT ![p] = rec._id]
                  /\ em_pc' = [em_pc EXCEPT ![p] = "sending"]
    /\ UNCHANGED <<em_next_id, em_sent, em_failed,
                   clockVars, autoVars, blVars, diagVars, wmVars, sendVars, statsVars, mailVars, windowVars>>

\* The caller's send succeeded: it goes on to remove the entry.
SendSucceeds(p) ==
    /\ em_pc[p] = "sending"
    /\ em_sent' = em_sent \cup {em_cur[p]}
    /\ em_pc' = [em_pc EXCEPT ![p] = "remove"]
    /\ UNCHANGED <<email_diagnostic_info, em_next_id, em_visited, em_cur, em_failed,
                   clockVars, autoVars, blVars, diagVars, wmVars, sendVars, statsVars, mailVars, windowVars>>

\* The caller's send raised: it logs the error and goes on with the pass.
SendFails(p) ==
    /\ em_pc[p] = "sending"
    /\ em_failed' = em_failed \cup {em_cur[p]}
    /\ em_pc' = [em_pc EXCEPT ![p] = "iterating"]
    /\ UNCHANGED <<email_diagnostic_info, em_next_id, em_visited, em_cur, em_sent,
                   clockVars, autoVars, blVars, diagVars, wmVars, sendVars, statsVars, mailVars, windowVars>>

\* remove_email_diagnostic_info(email_diagnostic_info):
\* find_one_and_delete({'_id': email_diagnostic_info['_id']})
remove_email_diagnostic_info(p) ==
    /\ em_pc[p] = "remove"
    /\ email_diagnostic_info' = {rec \in email_diagnostic_info : rec._id # em_cur[p]}
    /\ em_pc' = [em_pc EXCEPT ![p] = "iterating"]
    /\ UNCHANGED <<em_next_id, em_visited, em_cur, em_sent, em_failed,
                   clockVars, autoVars, blVars, diagVars, wmVars, sendVars, statsVars, mailVars, windowVars>>

\* The TTL index on email_diagnostic_info removes an expired entry.
ExpireEmailDiagnosticInfo ==
    \E rec \in Expirable(email_diagnostic_info, EMAIL_DIAGNOSTIC_INFO_LIFETIME_SECS) :
        /\ email_diagnostic_info' = email_diagnostic_info \ {rec}
        /\ UNCHANGED <<em_next_id, em_pc, em_visited, em_cur, em_sent, em_failed,
                       clockVars, autoVars, blVars, diagVars, wmVars, sendVars, statsVars, mailVars, windowVars>>

EmailTick ==
    /\ Tick(TickSecs)
    /\ UNCHANGED <<autoVars, blVars, diagVars, wmVars, emailVars, sendVars, statsVars, mailVars, windowVars>>

EmailNext ==
    \/ insert_email_diagnostic_info
    \/ \E p \in Procs : get_email_diagnostic_info_iterator(p)
    \/ \E p \in Procs : EmailCursorNext(p)
    \/ \E p \in Procs : SendSucceeds(p)
    \/ \E p \in Procs : SendFails(p)
    \/ \E p \in Procs : remove_email_diagnostic_info(p)
    \/ ExpireEmailDiagnosticInfo
    \/ EmailTick

(***************************************************************************)
(* send_response                                                           *)
(***************************************************************************)
SES_EMAIL_SIZE_LIMIT == 10485760

\* The sizes of a body: absent (None or ''), small, more than half the limit,
\* more than the limit.
BodySizes == {0, SmallBody, SES_EMAIL_SIZE_LIMIT \div 2 + SmallBody,
              SES_EMAIL_SIZE_LIMIT + SmallBody}

NoEmail == [none |-> TRUE, parts |-> <<>>, len |-> 0]

SendInit ==
    /\ sr_pc = "idle"
    /\ sr_args = [attachments |-> FALSE, replyid |-> FALSE, body_text |-> 0, body_html |-> 0]
    /\ sr_body = <<>>
    /\ sr_raw = NoEmail
    /\ sr_first = NoEmail
    /\ sr_out = NoEmail

RECURSIVE PartsLen(_)
PartsLen(parts) ==
    IF parts = <<>> THEN 0 ELSE Head(parts).size + PartsLen(Tail(parts))

\* sendmail.create_raw_email(recipient, from_address, subject, body, ...): the
\* message with the parts of `body`, as long as its headers and its parts.
\* With no part it is a message without a body, or no message.
create_raw_email(body, extra_headers) ==
    LET msg == [none |-> FALSE, parts |-> body,
                len |-> HeaderLen * extra_headers + PartsLen(body)]
    IN IF body = <<>> THEN {NoEmail, msg} ELSE {msg}

\* The parts of `body` by their subtype.
Plain(parts) == SelectSeq(parts, LAMBDA part : part.subtype = "plain")

\* body.pop(): the list without its last element.
Pop(body) == SubSeq(body, 1, Len(body) - 1)

\* send_response, lines 74-94: the attachments check, the headers, the body
\* and the first create_raw_email.
SendResponseAssemble(attachments, replyid, body_text, body_html) ==
    /\ sr_pc = "idle"
    /\ sr_args' = [attachments |-> attachments, replyid |-> replyid,
                   body_text |-> body_text, body_html |-> body_html]
    /\ sr_out' = NoEmail
    /\ IF attachments
       THEN /\ sr_pc' = "returned"
            /\ sr_body' = <<>>
            /\ sr_raw' = NoEmail
            /\ sr_first' = NoEmail
       ELSE LET extra_headers == IF replyid THEN 3 ELSE 1
                text == IF body_text # 0
                        THEN <<[subtype |-> "plain", size |-> body_text]>> ELSE <<>>
                html == IF body_html # 0
                        THEN <<[subtype |-> "html", size |-> body_html]>> ELSE <<>>
                body == text \o html
            IN \E raw_email \in create_raw_email(body, extra_headers) :
                  /\ sr_body' = body
                  /\ sr_raw' = raw_email
                  /\ sr_first' = raw_email
                  /\ sr_pc' = "assembled"
    /\ UNCHANGED <<clockVars, autoVars, blVars, diagVars, wmVars, emailVars, statsVars, mailVars, windowVars>>

\* send_response, lines 96-108: the size check and the second create_raw_email.
SendResponseResize ==
    /\ sr_pc = "assembled"
    /\ IF sr_raw.none
       THEN /\ sr_pc' = "returned"
            /\ UNCHANGED <<sr_body, sr_raw>>
       ELSE IF sr_raw.len > SES_EMAIL_SIZE_LIMIT
       THEN \E raw_email \in create_raw_email(Pop(sr_body),
                                              IF sr_args.replyid THEN 3 ELSE 1) :
               /\ sr_body' = Pop(sr_body)
               /\ sr_raw' = raw_email
               /\ sr_pc' = "resized"
       ELSE /\ sr_pc' = "resized"
            /\ UNCHANGED <<sr_body, sr_raw>>
    /\ UNCHANGED <<sr_args, sr_first, sr_out,
                   clockVars, autoVars, blVars, diagVars, wmVars, emailVars, statsVars, mailVars, windowVars>>

\* send_response, lines 110-115: the second check and send_raw_email_amazonses,
\* which raises for a message over the limit.
SendResponseSend ==
    /\ sr_pc = "resized"
    /\ IF sr_raw.none
       THEN /\ sr_pc' = "returned"
            /\ UNCHANGED sr_out
       ELSE /\ sr_out' = sr_raw
            /\ sr_pc' = IF sr_raw.len > SES_EMAIL_SIZE_LIMIT THEN "raised" ELSE "sent"
    /\ UNCHANGED <<sr_args, sr_body, sr_raw, sr_first,
                   clockVars, autoVars, blVars, diagVars, wmVars, emailVars, statsVars, mailVars, windowVars>>

\* The call is over; the next one may start.
SendResponseDone ==
    /\ sr_pc \in {"returned", "sent", "raised"}
    /\ sr_pc' = "idle"
    /\ UNCHANGED <<sr_args, sr_body, sr_raw, sr_first, sr_out,
                   clockVars, autoVars, blVars, diagVars, wmVars, emailVars, statsVars, mailVars, windowVars>>

SendNext ==
    \/ \E attachments \in BOOLEAN, replyid \in BOOLEAN,
          body_text \in BodySizes, body_html \in BodySizes :
          SendResponseAssemble(attachments, replyid, body_text, body_html)
    \/ SendResponseResize
    \/ SendResponseSend
    \/ SendResponseDone

(***************************************************************************)
(* _get_stats_helper                                                       *)
(*                                                                         *)
(* The fields of a stored record are JSON values of several types, and the *)
(* code tests them by truthiness and isinstance: a value carries its type. *)
(* A string is the sequence of its characters.                             *)
(***************************************************************************)
PyNone == [t |-> "none", b |-> FALSE, n |-> 0, s |-> <<>>]
PyBool(x) == [t |-> "bool", b |-> x, n |-> 0, s |-> <<>>]
PyInt(x) == [t |-> "int", b |-> FALSE, n |-> x, s |-> <<>>]
PyStr(x) == [t |-> "str", b |-> FALSE, n |-> 0, s |-> x]

Yes == <<"Y", "e", "s">>
No == <<"N", "o">>

\* bool(v), as `if v` and `a and b` test it
Truthy(v) ==
    CASE v.t = "none" -> FALSE
      [] v.t = "bool" -> v.b
      [] v.t = "int"  -> v.n # 0
      [] v.t = "str"  -> v.s # <<>>

DigitValue(c) ==
    CASE c = "0" -> 0 [] c = "1" -> 1 [] c = "2" -> 2 [] c = "3" -> 3 [] c = "4" -> 4
      [] c = "5" -> 5 [] c = "6" -> 6 [] c = "7" -> 7 [] c = "8" -> 8 [] c = "9" -> 9

\* int(s) of a string of decimal digits
RECURSIVE ParseInt(_)
ParseInt(digits) ==
    IF digits = <<>> THEN 0
    ELSE 10 * ParseInt(SubSeq(digits, 1, Len(digits) - 1)) + DigitValue(digits[Len(digits)])

since_time == 0

Platforms == {"android", "windows"}
ChannelIds == {"channel"}
SponsorIds == {"sponsor"}
GroupKeys == Platforms \X ChannelIds \X SponsorIds

\* The records a cursor may return: platform, version, datetime, the two
\* identifiers (either may be missing) and the survey results (which may be
\* something else than a list).
SurveyInputs ==
    {[is_list |-> FALSE, results |-> <<>>],
     [is_list |-> TRUE, results |-> <<>>],
     [is_list |-> TRUE, results |-> <<[title |-> "q", answer |-> "a"]>>]}

Records ==
    [platform : Platforms, version : 1..3, datetime : {since_time, since_time + 1},
     propagation_channel_id : ChannelIds \cup {None},
     sponsor_id : SponsorIds \cup {None},
     survey : SurveyInputs]

\* The three find() queries, in the order the function runs them.
Query(cursor) ==
    {rec \in Records :
        /\ rec.datetime > since_time
        /\ CASE cursor = "legacy"  -> rec.platform = "android" /\ rec.version = 1
             [] cursor = "android" -> rec.platform = "android" /\ rec.version > 2
             [] cursor = "windows" -> rec.platform = "windows" /\ rec.version > 1}

NextCursor(cursor) ==
    CASE cursor = "legacy" -> "android"
      [] cursor = "android" -> "windows"
      [] cursor = "windows" -> "finalize"

\* The DiagnosticHistory entries a record may hold. Records of the legacy
\* shape also hold strings: "Yes"/"No" and numeric strings.
RespondedInputs(cursor) ==
    {PyNone, PyBool(TRUE), PyBool(FALSE)}
        \cup (IF cursor = "legacy" THEN {PyStr(Yes), PyStr(No)} ELSE {})

ResponseTimeInputs(cursor) ==
    {PyNone, PyInt(0), PyInt(ResponseMillis)}
        \cup (IF cursor = "legacy" THEN {PyStr(<<"0">>), PyStr(<<"1", "2", "0">>)} ELSE {})

HistoryEntries(cursor) ==
    [msg : {"ServerResponseCheck"},
     responded : RespondedInputs(cursor),
     responseTime : ResponseTimeInputs(cursor)]
        \cup {[msg |-> "Other", responded |-> PyNone, responseTime |-> PyNone]}

NoRecord == [active |-> FALSE, key |-> <<"", "", "">>,
             survey |-> [is_list |-> FALSE, results |-> <<>>]]

\* A group whose key enters raw_stats already counted once.
NoGroupCounted == [present |-> FALSE, count |-> 1, response_checks |-> <<>>,
                   survey_results |-> <<>>]

\* A key that is not in raw_stats.
NoGroup == [present |-> FALSE, count |-> 0, response_checks |-> <<>>,
            survey_results |-> <<>>]

NoneSeen == [k \in GroupKeys |-> [responded_numeric |-> 0, negative |-> 0]]

\* No record met: none selected with both identifiers (by group), none
\* selected that lacks one, and none with both that no query selects.
NoneHeld == [selected |-> [k \in GroupKeys |-> 0], lacking |-> 0, unselected |-> 0]

StatsInit ==
    /\ gs_pc = "legacy"
    /\ gs_rec = NoRecord
    /\ gs_checks = <<>>
    /\ raw_stats = [k \in GroupKeys |-> NoGroup]
    /\ gs_stats = {}
    /\ gs_records = 0
    /\ gs_entries = 0
    /\ gs_seen = NoneSeen
    /\ gs_held = NoneHeld

Cursors == {"legacy", "android", "windows"}

\* A raw response-check entry that responded (true, or "Yes" in the legacy
\* shape) and has a numeric response time (0 included).
RespondedNumeric(entry) ==
    /\ entry.msg = "ServerResponseCheck"
    /\ entry.responded \in {PyBool(TRUE), PyStr(Yes)}
    /\ entry.responseTime.t \in {"int", "str"}

\* A raw response-check entry that responded negatively.
Negative(entry) ==
    /\ entry.msg = "ServerResponseCheck"
    /\ entry.responded \in {PyBool(FALSE), PyStr(No)}

\* `for rec in cur`, to the `continue` of a record that lacks an identifier.
StatsCursorNext(rec) ==
    /\ gs_pc \in Cursors
    /\ ~gs_rec.active
    /\ gs_records < MaxStatsRecords
    /\ rec \in Query(gs_pc)
    /\ gs_records' = gs_records + 1
    /\ IF rec.propagation_channel_id = None \/ rec.sponsor_id = None
       THEN /\ UNCHANGED gs_rec
            /\ gs_held' = [gs_held EXCEPT !.lacking = @ + 1]
       ELSE /\ gs_rec' = [active |-> TRUE,
                          key |-> <<rec.platform, rec.propagation_channel_id, rec.sponsor_id>>,
                          survey |-> rec.survey]
            /\ gs_held' = [gs_held EXCEPT
                  !.selected[<<rec.platform, rec.propagation_channel_id, rec.sponsor_id>>] = @ + 1]
    /\ UNCHANGED <<gs_pc, gs_checks, raw_stats, gs_stats, gs_entries, gs_seen,
                   clockVars, autoVars, blVars, diagVars, wmVars, emailVars, sendVars, mailVars, windowVars>>

\* The records of the collection that none of the three find() calls
\* selects: those not newer than since_time, or of another platform version.
Unselected == {rec \in Records : \A cursor \in Cursors : rec \notin Query(cursor)}

\* The collection holds a record that no cursor returns.
StatsPassedOver(rec) ==
    /\ gs_pc \in Cursors
    /\ ~gs_rec.active
    /\ gs_records < MaxStatsRecords
    /\ rec \in Unselected
    /\ gs_records' = gs_records + 1
    /\ gs_held' = IF /\ rec.datetime > since_time
                     /\ rec.propagation_channel_id # None
                     /\ rec.sponsor_id # None
                  THEN [gs_held EXCEPT !.unselected = @ + 1]
                  ELSE gs_held
    /\ UNCHANGED <<gs_pc, gs_rec, gs_checks, raw_stats, gs_stats, gs_entries, gs_seen,
                   clockVars, autoVars, blVars, diagVars, wmVars, emailVars, sendVars, mailVars, windowVars>>

\* The condition of the response_checks comprehension.
KeepsEntry(entry) ==
    /\ entry.msg = "ServerResponseCheck"
    /\ Truthy(entry.responded)
    /\ Truthy(entry.responseTime)

\* One entry of the record's DiagnosticHistory goes through the comprehension.
StatsHistoryNext(entry) ==
    /\ gs_pc \in Cursors
    /\ gs_rec.active
    /\ gs_entries < MaxStatsEntries
    /\ entry \in HistoryEntries(gs_pc)
    /\ gs_entries' = gs_entries + 1
    /\ gs_checks' = IF KeepsEntry(entry)
                    THEN Append(gs_checks, [responded |-> entry.responded,
                                            responseTime |-> entry.responseTime])
                    ELSE gs_checks
    /\ gs_seen' = [gs_seen EXCEPT ![gs_rec.key] =
                     [responded_numeric |-> @.responded_numeric
                                              + (IF RespondedNumeric(entry) THEN 1 ELSE 0),
                      negative |-> @.negative + (IF Negative(entry) THEN 1 ELSE 0)]]
    /\ UNCHANGED <<gs_pc, gs_rec, raw_stats, gs_stats, gs_records, gs_held,
                   clockVars, autoVars, blVars, diagVars, wmVars, emailVars, sendVars, mailVars, windowVars>>

\* A loop that leaves the kept entries as they were stored.
CoerceNothing(r) == r

\* The legacy loop's coercion of one kept entry.
Coerce(r) ==
    [responded |-> IF r.responded.t = "str"
                   THEN PyBool(r.responded.s = Yes) ELSE r.responded,
     responseTime |-> IF r.responseTime.t = "str"
                      THEN PyInt(ParseInt(r.responseTime.s)) ELSE r.responseTime]

CoerceAll(checks) == [i \in 1..Len(checks) |-> Coerce(checks[i])]

\* The rest of the loop body: the coercion (legacy), the survey results
\* (current shape), and the accumulation into the record's group.
StatsRecordDone ==
    /\ gs_pc \in Cursors
    /\ gs_rec.active
    /\ LET response_checks == IF gs_pc = "legacy" THEN CoerceAll(gs_checks) ELSE gs_checks
           survey_results == IF gs_pc # "legacy" /\ gs_rec.survey.is_list
                             THEN gs_rec.survey.results ELSE <<>>
       IN raw_stats' = [raw_stats EXCEPT ![gs_rec.key] =
              [present |-> TRUE,
               count |-> @.count + 1,
               response_checks |-> @.response_checks \o response_checks,
               survey_results |-> @.survey_results \o survey_results]]
    /\ gs_rec' = NoRecord
    /\ gs_checks' = <<>>
    /\ UNCHANGED <<gs_pc, gs_stats, gs_records, gs_entries, gs_seen, gs_held,
                   clockVars, autoVars, blVars, diagVars, wmVars, emailVars, sendVars, mailVars, windowVars>>

\* The cursor is exhausted: the next query runs, or the rows are computed.
StatsCursorEnd ==
    /\ gs_pc \in Cursors
    /\ ~gs_rec.active
    /\ gs_pc' = NextCursor(gs_pc)
    /\ UNCHANGED <<gs_rec, gs_checks, raw_stats, gs_stats, gs_records, gs_entries,
                   gs_seen, gs_held,
                   clockVars, autoVars, blVars, diagVars, wmVars, emailVars, sendVars, mailVars, windowVars>>

RECURSIVE SumSeq(_)
SumSeq(seq) == IF seq = <<>> THEN 0 ELSE Head(seq) + SumSeq(Tail(seq))

\* [r['responseTime'] for r in results['response_checks'] if r['responded']]
ResponseTimes(response_checks) ==
    LET responded == SelectSeq(response_checks, LAMBDA r : Truthy(r.responded))
    IN [i \in 1..Len(responded) |-> responded[i].responseTime.n]

\* survey_reducer over the group's survey results: title -> answer -> count,
\* as the set of (title, answer, count).
SurveyTally(survey_results) ==
    {[title |-> survey_results[i].title, answer |-> survey_results[i].answer,
      count |-> Cardinality({j \in 1..Len(survey_results) :
                               survey_results[j] = survey_results[i]})] :
        i \in 1..Len(survey_results)}

\* One row of the result. A float is the fraction it is computed as; the
\* median, stddev and quartiles are numpy's of the same response_times.
StatsRow(result_params, results) ==
    LET response_times == ResponseTimes(results.response_checks)
        checks == Len(results.response_checks)
    IN [platform |-> result_params[1],
        propagation_channel_id |-> result_params[2],
        sponsor_id |-> result_params[3],
        response_times |-> response_times,
        mean |-> IF Len(response_times) # 0
                 THEN [none |-> FALSE, num |-> SumSeq(response_times),
                       den |-> Len(response_times)]
                 ELSE [none |-> TRUE, num |-> 0, den |-> 1],
        failrate |-> IF checks # 0
                     THEN [num |-> checks - Len(response_times), den |-> checks]
                     ELSE [num |-> 1, den |-> 1],
        response_sample_count |-> checks,
        survey_results |-> SurveyTally(results.survey_results),
        record_count |-> results.count]

\* `for result_params, results in raw_stats.items()` and the return.
StatsFinalize ==
    /\ gs_pc = "finalize"
    /\ gs_stats' = {StatsRow(k, raw_stats[k]) : k \in {g \in GroupKeys : raw_stats[g].present}}
    /\ gs_pc' = "done"
    /\ UNCHANGED <<gs_rec, gs_checks, raw_stats,  gs_records, gs_entries, gs_seen, gs_held,
                   clockVars, autoVars, blVars, diagVars, wmVars, emailVars, sendVars, mailVars, windowVars>>

StatsNext ==
    \/ \E rec \in Records : StatsCursorNext(rec)
    \/ \E rec \in Unselected : StatsPassedOver(rec)
    \/ \E entry \in HistoryEntries("legacy") : StatsHistoryNext(entry)
    \/ StatsRecordDone
    \/ StatsCursorEnd
    \/ StatsFinalize

(***************************************************************************)
(* The region report (psi_mail_stats.py, Python 2)                         *)
(*                                                                         *)
(* A region is a number; the row of the total query has the key Total.    *)
(* A value is a number or None (sum() over no rows).                       *)
(***************************************************************************)
Total == 0
TopLimit == 11

Regions == 1..NumRegions
TableKeys == Regions \cup {Total}

\* The three tables, in the order of `tables`.
Tables == <<"Connections", "Unique Users", "Page Views">>
\* The three columns of each: Yesterday, Previous Day, Past Week.
Columns == 1..3

Num(n) == [none |-> FALSE, n |-> n]
NoValue == [none |-> TRUE, n |-> 0]

\* Python 2 orders None before every number.
KeyLess(a, b) ==
    \/ a.none /\ ~b.none
    \/ ~a.none /\ ~b.none /\ a.n < b.n

\* What the by-region query of a window may return: one row for each region
\* that has rows in the window, with its count (or sum), which is positive.
RegionCounts == {0, 1, 2, TopLimit - 1, TopLimit, NumRegions}
Patterns == {"ascending", "descending"}

RegionRows(n, pattern) ==
    [r \in 1..n |-> IF pattern = "ascending" THEN r ELSE n + 1 - r]

RECURSIVE SumTo(_, _)
SumTo(rows, n) == IF n = 0 THEN 0 ELSE rows[n] + SumTo(rows, n - 1)

\* What the total query over the same window returns: count(*) is the sum
\* of the regions' counts; sum(viewcount) is None when no row matches.
TotalOf(table, rows, n) ==
    IF Tables[table] = "Page Views" /\ n = 0 THEN NoValue ELSE Num(SumTo(rows, n))

\* defaultdict(int): a column never assigned reads as 0.
NoEntry == [present |-> FALSE, values |-> [c \in Columns |-> Num(0)]]

MailInit ==
    /\ ms_pc = "table"
    /\ ms_table = 1
    /\ ms_columns = 0
    /\ table_dict = [k \in TableKeys |-> NoEntry]
    /\ ms_totals = [c \in Columns |-> Num(0)]
    /\ ms_printed = <<>>

\* `for table in tables`, lines 169-171.
MailTable ==
    /\ ms_pc = "table"
    /\ ms_columns' = 0
    /\ table_dict' = [k \in TableKeys |-> NoEntry]
    /\ ms_totals' = [c \in Columns |-> Num(0)]
    /\ ms_printed' = <<>>
    /\ ms_pc' = "column"
    /\ UNCHANGED <<ms_table,
                   clockVars, autoVars, blVars, diagVars, wmVars, emailVars, sendVars,
                   statsVars, windowVars>>

\* The windows of Connections and Page Views are nested: a row of Yesterday
\* or Previous Day is a row of Past Week. Those of Unique Users are not: the
\* query also asks for last_connected before the start of the window.
Nested(table, column, n) ==
    (Tables[table] # "Unique Users" /\ column = 3) =>
        \A r \in Regions : (table_dict[r].present => r <= n)

\* One pass of `for column, queries in table[1]`, lines 172-189: the two
\* queries and the rows stored in table_dict.
MailColumn(n, pattern) ==
    /\ ms_pc = "column"
    /\ ms_columns < 3
    /\ Nested(ms_table, ms_columns + 1, n)
    /\ LET column == ms_columns + 1
           rows == RegionRows(n, pattern)
           total == TotalOf(ms_table, rows, n)
       IN /\ ms_columns' = column
          /\ ms_totals' = [ms_totals EXCEPT ![column] = total]
          /\ table_dict' =
                [k \in TableKeys |->
                    IF k = Total
                    THEN [present |-> TRUE,
                          values |-> [table_dict[k].values EXCEPT ![column] = total]]
                    ELSE IF k <= n
                    THEN [present |-> TRUE,
                          values |-> [table_dict[k].values EXCEPT ![column] = Num(rows[k])]]
                    ELSE table_dict[k]]
    /\ UNCHANGED <<ms_pc, ms_table, ms_printed,
                   clockVars, autoVars, blVars, diagVars, wmVars, emailVars, sendVars,
                   statsVars, windowVars>>

\* The value sorted() compares: x[1][columns[-1]].
SortKey(k) == table_dict[k].values[ms_columns]

\* sorted(..., reverse=True) is stable: an item comes after the items whose
\* key is greater, and after the items of equal key that precede it.
SortedDescending(items) ==
    LET rank(i) ==
            Cardinality({j \in 1..Len(items) :
                            \/ KeyLess(SortKey(items[i]), SortKey(items[j]))
                            \/ /\ j < i
                               /\ ~KeyLess(SortKey(items[j]), SortKey(items[i]))}) + 1
    IN [pos \in 1..Len(items) |-> items[CHOOSE i \in 1..Len(items) : rank(i) = pos]]

\* table_dict.items(): the keys in the dict's order, which is that of their
\* hashes: the regions in some order, 'Total' anywhere among them. The
\* regions with an entry are 1..m, taken here in that order.
DictItems(total_at) ==
    LET regions == {r \in Regions : table_dict[r].present}
        ordered == [i \in 1..Cardinality(regions) |-> i]
    IN SubSeq(ordered, 1, total_at) \o <<Total>>
           \o SubSeq(ordered, total_at + 1, Len(ordered))

\* items[:11]
Top(items) == SubSeq(items, 1, IF Len(items) < TopLimit THEN Len(items) ELSE TopLimit)

\* Lines 191-199: the header and the rows.
MailPrint(total_at) ==
    /\ ms_pc = "column"
    /\ ms_columns = 3
    /\ total_at <= Cardinality({r \in Regions : table_dict[r].present})
    /\ \E items \in {DictItems(total_at)} :
       \E sorted \in {SortedDescending(items)} :
       \E top \in {Top(sorted)} :
           ms_printed' = [i \in 1..Len(top) |->
                             [region |-> top[i], values |-> table_dict[top[i]].values]]
    /\ ms_pc' = "printed"
    /\ UNCHANGED <<ms_table, ms_columns, table_dict, ms_totals,
                   clockVars, autoVars, blVars, diagVars, wmVars, emailVars, sendVars,
                   statsVars, windowVars>>

\* The next table, or db_conn.close().
MailNextTable ==
    /\ ms_pc = "printed"
    /\ IF ms_table < Len(Tables)
       THEN ms_table' = ms_table + 1 /\ ms_pc' = "table"
       ELSE ms_pc' = "closed" /\ UNCHANGED ms_table
    /\ UNCHANGED <<ms_columns, table_dict, ms_totals, ms_printed,
                   clockVars, autoVars, blVars, diagVars, wmVars, emailVars, sendVars,
                   statsVars, windowVars>>

MailNext ==
    \/ MailTable
    \/ \E n \in RegionCounts, pattern \in Patterns : MailColumn(n, pattern)
    \/ \E total_at \in 0..NumRegions : MailPrint(total_at)
    \/ MailNextTable

(***************************************************************************)
(* The report's time windows (psi_mail_stats.py)                           *)
(*                                                                         *)
(* The rows of `connected` and `page_views` carry the time they were       *)
(* logged. The report's queries run in one transaction (psycopg2 opens it  *)
(* at the first execute and the script never commits), so current_timestamp*)
(* is the same in all of them.                                             *)
(***************************************************************************)
WindowTables == <<"Connections", "Page Views">>
ClientRegions == {"CA", "US"}

Hours(h) == h * 3600

\* The intervals each table's columns are formatted with: '{0}' and '{1}'
\* of Yesterday, Previous Day and Past Week.
Intervals == <<<<Hours(36), Hours(12)>>, <<Hours(60), Hours(36)>>,
               <<Hours(180), Hours(12)>>>>

\* x BETWEEN lo AND hi
Between(x, lo, hi) == lo <= x /\ x <= hi

\* where timestamp between current_timestamp - interval '{0}'
\*                     and current_timestamp - interval '{1}'
Where(rows, table, column, current_timestamp) ==
    {i \in 1..Len(rows) :
        /\ rows[i].table = table
        /\ Between(rows[i].timestamp,
                   current_timestamp - Intervals[column][1],
                   current_timestamp - Intervals[column][2])}

\* count(*) of `connected`, sum(viewcount) of `page_views`
Aggregate(rows, selected) ==
    SumOver(selected, [i \in 1..Len(rows) |-> rows[i].viewcount])

\* select client_region, ... group by client_region
ByRegion(rows, selected) ==
    {[client_region |-> r,
      value |-> Aggregate(rows, {i \in selected : rows[i].client_region = r})] :
        r \in {rows[i].client_region : i \in selected}}

\* The total query: count(*) is 0 and sum() is NULL over no rows.
TotalQuery(rows, table, selected) ==
    IF table = "Page Views" /\ selected = {} THEN NoValue
    ELSE Num(Aggregate(rows, selected))

\* The passes of `for table in tables: for column, queries in table[1]`
\* over these two tables.
Passes == [n \in 1..(Len(WindowTables) * 3) |->
              [table |-> WindowTables[((n - 1) \div 3) + 1], column |-> ((n - 1) % 3) + 1]]

WindowInit ==
    /\ db_rows = <<>>
    /\ wq_pc = "idle"
    /\ wq_now = 0
    /\ wq_step = 0
    /\ wq_result = <<>>
    /\ wq_matched = <<>>

\* A client connects or views a page: a row is logged with the current time.
\* A row of `connected` counts for one, a row of `page_views` for its
\* viewcount.
LogRow(table, client_region) ==
    /\ Len(db_rows) < MaxRows
    /\ db_rows' = Append(db_rows,
                         [table |-> table, client_region |-> client_region,
                          timestamp |-> now,
                          viewcount |-> IF table = "Page Views" THEN 2 ELSE 1])
    /\ UNCHANGED <<wq_pc, wq_now, wq_step, wq_result, wq_matched,
                   clockVars, autoVars, blVars, diagVars, wmVars, emailVars, sendVars,
                   statsVars, mailVars>>

WindowTick ==
    /\ ticks < MaxWindowTicks
    /\ now' = now + TickSecs
    /\ ticks' = ticks + 1
    /\ UNCHANGED <<autoVars, blVars, diagVars, wmVars, emailVars, sendVars,
                   statsVars, mailVars, windowVars>>

\* One pass of the column loop, lines 172-184: the by-region query and the
\* total query. The first execute opens the transaction.
WindowColumn ==
    /\ wq_pc \in {"idle", "run"}
    /\ wq_step < Len(Passes)
    /\ LET pass == Passes[wq_step + 1]
           current_timestamp == IF wq_pc = "idle" THEN now ELSE wq_now
           selected == Where(db_rows, pass.table, pass.column, current_timestamp)
       IN /\ wq_now' = current_timestamp
          /\ wq_matched' = Append(wq_matched, selected)
          /\ wq_result' = Append(wq_result,
                                 [rows |-> ByRegion(db_rows, selected),
                                  total |-> TotalQuery(db_rows, pass.table, selected)])
    /\ wq_step' = wq_step + 1
    /\ wq_pc' = "run"
    /\ UNCHANGED <<db_rows,
                   clockVars, autoVars, blVars, diagVars, wmVars, emailVars, sendVars,
                   statsVars, mailVars>>

\* db_conn.close(), line 201
WindowClose ==
    /\ wq_pc = "run"
    /\ wq_step = Len(Passes)
    /\ wq_pc' = "closed"
    /\ UNCHANGED <<db_rows, wq_now, wq_step, wq_result, wq_matched,
                   clockVars, autoVars, blVars, diagVars, wmVars, emailVars, sendVars,
                   statsVars, mailVars>>

WindowNext ==
    \/ \E table \in Range(WindowTables), client_region \in ClientRegions :
          LogRow(table, client_region)
    \/ WindowTick
    \/ WindowColumn
    \/ WindowClose

AllInit ==
    /\ ClockInit
    /\ AutoInit
    /\ BlacklistInit
    /\ DiagInit
    /\ WatermarkInit
    /\ EmailInit
    /\ SendInit
    /\ StatsInit
    /\ MailInit
    /\ WindowInit

SpecAuto == AllInit /\ [][AutoNext]_vars
SpecBlacklist == AllInit /\ [][BlacklistNext]_vars
SpecDiag == AllInit /\ [][DiagNext]_vars
SpecWatermark == AllInit /\ [][WatermarkNext]_vars
SpecEmail == AllInit /\ [][EmailNext]_vars
SpecSend == AllInit /\ [][SendNext]_vars
SpecStats == AllInit /\ [][StatsNext]_vars
SpecMail == AllInit /\ [][MailNext]_vars
SpecWindow == AllInit /\ [][WindowNext]_vars

(***************************************************************************)
(* Claims about the autoresponder queue                                    *)
(***************************************************************************)
\* How often the entry with this _id was yielded, over all callers.
TimesYielded(id) == SumOver(Procs, [p \in Procs |-> Occurrences(ar_yielded[p], id)])

TotalYielded == SumOver(Procs, [p \in Procs |-> Len(ar_yielded[p])])

InQueue(id) == \E rec \in autoresponder : rec._id = id

\* Every entry ever inserted is either still queued or was yielded to exactly
\* one caller exactly once; after N pops of N entries the queue is empty.
ExactlyOnceState ==
    /\ \A id \in 1..(ar_next_id - 1) :
          TimesYielded(id) + (IF InQueue(id) THEN 1 ELSE 0) = 1
    /\ (TotalYielded = ar_next_id - 1) => autoresponder = {}

\* A generator stops only on an empty queue, and on an empty queue its next
\* step stops it without yielding.
IteratorStops ==
    \A p \in Procs :
        /\ (ar_iter[p] = "active" /\ ar_iter'[p] = "exhausted") => autoresponder = {}
        /\ (ar_iter[p] = "active" /\ autoresponder = {}
               /\ <<ar_iter[p], ar_yielded[p]>> # <<ar_iter'[p], ar_yielded'[p]>>)
             => (ar_iter'[p] = "exhausted" /\ ar_yielded'[p] = ar_yielded[p])

\* C1: concurrent callers draining get_autoresponder_iterator receive every
\* entry exactly once: no entry is yielded twice or lost, the queue is empty
\* after N pops, and a generator that finds the queue empty stops.
C1_ExactlyOncePop == [](ExactlyOnceState) /\ [][IteratorStops]_vars

\* Two callers were both active, each received an entry, the queue of three
\* is drained and both generators have stopped.
C1_Witness ==
    /\ ar_next_id - 1 = 3
    /\ autoresponder = {}
    /\ \A p \in {1, 2} : Len(ar_yielded[p]) >= 1 /\ ar_iter[p] = "exhausted"

(***************************************************************************)
(* Claims about the response blacklist                                     *)
(***************************************************************************)
\* The positions in bl_log of the calls for this address.
CallsFor(a) == {i \in 1..Len(bl_log) : bl_log[i].address = a}

EntriesFor(a) == {rec \in response_blacklist : rec.address = a}

StoredWith(id) == {rec \in diagnostic_info : rec.metadata_id = id}

ReturnsFor(id) == {i \in 1..Len(di_log) : di_log[i].metadata_id = id}

\* Calls for one id made one after the other (none overlapping, nothing
\* expired): one record is stored, the first call returned its _id, every
\* later call returned None and logged "duplicate id".
SequentialInserts ==
    \A id \in FeedbackIds \ {None} :
        (id \notin di_overlap /\ id \notin di_expired /\ ReturnsFor(id) # {}) =>
            /\ Cardinality(StoredWith(id)) = 1
            /\ \A i \in ReturnsFor(id) :
                  IF \A j \in ReturnsFor(id) : i <= j
                  THEN di_log[i].returned = "_id" /\ di_log[i].error = ""
                  ELSE di_log[i].returned = "None" /\ di_log[i].error = "duplicate id"

\* A call that returns None leaves the store as it was.
RejectionLeavesStore ==
    (Len(di_log') = Len(di_log) + 1 /\ di_log'[Len(di_log')].returned = "None")
        => diagnostic_info' = diagnostic_info

\* C3: two insert_diagnostic_info calls in sequence with the same Metadata.id
\* leave exactly one stored record: the first returns the inserted _id, the
\* second returns None (logging a duplicate id), and leaves the store unchanged.
C3_DuplicateRejected == [](SequentialInserts) /\ [][RejectionLeavesStore]_vars

\* One id was inserted and then rejected as a duplicate, the calls in sequence.
C3_Witness ==
    \E id \in FeedbackIds \ {None} :
        /\ id \notin di_overlap /\ id \notin di_expired
        /\ Cardinality(ReturnsFor(id)) >= 2
        /\ \E i \in ReturnsFor(id) : di_log[i].error = "duplicate id"

\* C4: no two stored diagnostic records have the same Metadata.id, whatever
\* the interleaving of concurrent insert_diagnostic_info calls.
C4_UniqueIds ==
    \A r1, r2 \in diagnostic_info : r1.metadata_id = r2.metadata_id => r1 = r2

(***************************************************************************)
(* Claims about the stats watermark                                        *)
(***************************************************************************)
NonDecreasing(s) == \A i, j \in 1..Len(s) : i <= j => s[i] <= s[j]

\* The values get_stats_last_send_time returned (its None results left out).
ValuesGot == {i \in 1..Len(wm_gets) : ~wm_gets[i].none}

WatermarkNeverEarlier ==
    \A i, j \in ValuesGot : i <= j => wm_gets[i].value <= wm_gets[j].value

\* C8 as stated: over any sequence of set_stats_last_send_time calls the value
\* get_stats_last_send_time returns never becomes earlier than one it returned
\* before, and the stats collection holds at most one record.
C8_WatermarkMonotonic ==
    /\ WatermarkNeverEarlier
    /\ Cardinality(stats) <= 1

\* C8 as amended: the stats collection holds at most one record, which carries
\* the timestamp of the most recent set_stats_last_send_time call; so the value
\* returned never becomes earlier provided no call passes a timestamp earlier
\* than the call before it.
C8_WatermarkIsLastSet ==
    /\ Cardinality(stats) <= 1
    /\ (wm_sets = <<>>) <=> (stats = {})
    /\ \A rec \in stats : rec.last_send_time = wm_sets[Len(wm_sets)]
    /\ NonDecreasing(wm_sets) => WatermarkNeverEarlier

\* Three sets with advancing timestamps, each read back.
C8_Witness ==
    /\ Len(wm_sets) = 3 /\ NonDecreasing(wm_sets) /\ wm_sets[1] < wm_sets[3]
    /\ Cardinality(ValuesGot) = 3
    /\ wm_gets[1].value < wm_gets[3].value

(***************************************************************************)
(* Claims about the email queue                                            *)
(***************************************************************************)
\* In this step process p removes the entry with this _id, after its send
\* of the entry succeeded.
RemovedAfterSend(id) ==
    \E p \in Procs :
        /\ em_pc[p] = "remove" /\ em_pc'[p] # "remove"
        /\ em_cur[p] = id
        /\ id \in em_sent

Leaves(rec) == rec \in email_diagnostic_info /\ rec \notin email_diagnostic_info'

\* C9 as stated: a queued entry stays in the queue until
\* remove_email_diagnostic_info is called for it after a successful send.
C9_StaysUntilRemoved ==
    [][\A rec \in email_diagnostic_info : Leaves(rec) => RemovedAfterSend(rec._id)]_vars

\* A pass that ends has returned every entry then in the queue.
PassReturnsAll ==
    \A p \in Procs :
        (em_pc[p] = "iterating" /\ em_pc'[p] = "idle") =>
            \A rec \in email_diagnostic_info : rec._id \in em_visited[p]

\* C9 as amended: a queued entry leaves the queue only when
\* remove_email_diagnostic_info is called for it after a successful send, or
\* when the TTL index expires it, one day or more after it was queued;
\* iterating the queue or a failed send never removes it, and a pass returns
\* every entry in the queue.
C9_StaysUntilRemovedOrExpired ==
    [][/\ \A rec \in email_diagnostic_info :
             Leaves(rec) =>
                 \/ RemovedAfterSend(rec._id)
                 \/ now - rec.datetime >= EMAIL_DIAGNOSTIC_INFO_LIFETIME_SECS
        /\ PassReturnsAll]_vars

\* An entry whose send failed is still queued, was returned again by a later
\* pass of the same process (the only one that ran) and is being sent again.
C9_Witness ==
    \E p \in Procs, rec \in email_diagnostic_info :
        /\ rec._id \in em_failed
        /\ rec._id \notin em_sent
        /\ em_pc[p] = "sending" /\ em_cur[p] = rec._id
        /\ now - rec.datetime < EMAIL_DIAGNOSTIC_INFO_LIFETIME_SECS
        /\ \A q \in Procs \ {p} : em_pc[q] = "idle" /\ em_visited[q] = {}

(***************************************************************************)
(* Claims about send_response                                              *)
(***************************************************************************)
\* The body the call started with.
OriginalBody ==
    (IF sr_args.body_text # 0
     THEN <<[subtype |-> "plain", size |-> sr_args.body_text]>> ELSE <<>>)
    \o (IF sr_args.body_html # 0
        THEN <<[subtype |-> "html", size |-> sr_args.body_html]>> ELSE <<>>)

Oversized == ~sr_first.none /\ sr_first.len > SES_EMAIL_SIZE_LIMIT

\* C6: whenever the first assembled message is over the size ceiling, what
\* send_response drops is the HTML part: the message it goes on with, and hands
\* to the transport, is the plain-text part of the original, for every
\* combination of body_text and body_html; a message with a plain-text part is
\* never reduced to an empty body and not sent.
C6_DropsHtmlOnly ==
    (Oversized /\ sr_pc \in {"resized", "sent", "raised", "returned"}) =>
        /\ sr_body = Plain(OriginalBody)
        /\ (sr_args.body_text # 0 /\ sr_pc # "resized") =>
              (~sr_out.none /\ sr_out.parts = Plain(OriginalBody))

(***************************************************************************)
(* Claims about _get_stats_helper                                          *)
(***************************************************************************)
RowKey(row) == <<row.platform, row.propagation_channel_id, row.sponsor_id>>

\* C5: for every group, failrate is in [0,1], and failrate = 1.0 if and only
\* if no response-check entry of the group has both responded = true and a
\* numeric response time (a response time of 0 included).
C5_FailrateOneIffNoneResponded ==
    gs_pc = "done" =>
        \A row \in gs_stats :
            /\ 0 <= row.failrate.num /\ row.failrate.num <= row.failrate.den
            /\ (row.failrate.num = row.failrate.den)
                 <=> (gs_seen[RowKey(row)].responded_numeric = 0)

\* C10: the response-check entries of a group that responded negatively are
\* counted in its response_sample_count and are left out of its response
\* times, which hold only entries that responded with a response time.
C10_NegativeInDenominator ==
    gs_pc = "done" =>
        \A row \in gs_stats :
            /\ row.response_sample_count - Len(row.response_times)
                 = gs_seen[RowKey(row)].negative
            /\ Len(row.response_times) <= gs_seen[RowKey(row)].responded_numeric

(***************************************************************************)
(* Claims about the region report                                          *)
(***************************************************************************)
PrintedRegions == {i \in 1..Len(ms_printed) : ms_printed[i].region # Total}

\* C7: the printed table lists its rows in descending order of the last
\* column, holds at most the top 10 regions, and always holds the row
\* labelled Total with the results of the total queries.
C7_TopTenAndTotal ==
    ms_pc = "printed" =>
        /\ \A i, j \in 1..Len(ms_printed) :
              i < j => ~KeyLess(ms_printed[i].values[3], ms_printed[j].values[3])
        /\ Cardinality(PrintedRegions) <= TopLimit - 1
        /\ \A r \in Regions :
              (table_dict[r].present /\ \A i \in PrintedRegions : ms_printed[i].region # r)
                  => \A i \in PrintedRegions :
                        ~KeyLess(ms_printed[i].values[3], table_dict[r].values[3])
        /\ \E i \in 1..Len(ms_printed) :
              ms_printed[i].region = Total /\ ms_printed[i].values = ms_totals

(***************************************************************************)
(* Claims about the legacy coercion                                        *)
(***************************************************************************)
\* No entry of raw_stats holds a string, or anything but a boolean responded
\* and an integer responseTime.
NativeTypes ==
    \A k \in GroupKeys : \A i \in 1..Len(raw_stats[k].response_checks) :
        /\ raw_stats[k].response_checks[i].responded.t = "bool"
        /\ raw_stats[k].response_checks[i].responseTime.t = "int"

\* What a legacy record adds to its group is its kept entries, one for one:
\* "Yes" as true, another string as false, "120" as 120, "0" as 0, and a
\* boolean or an integer as it was.
LegacyRecordCoerced ==
    (gs_pc = "legacy" /\ gs_rec.active /\ ~gs_rec'.active) =>
        LET old == raw_stats[gs_rec.key].response_checks
            new == raw_stats'[gs_rec.key].response_checks
        IN /\ Len(new) = Len(old) + Len(gs_checks)
           /\ \A i \in 1..Len(gs_checks) :
                 LET raw == gs_checks[i]
                     out == new[Len(old) + i]
                 IN /\ out.responded.t = "bool"
                    /\ out.responseTime.t = "int"
                    /\ raw.responded.t = "str" => (out.responded.b <=> raw.responded.s = Yes)
                    /\ raw.responded.t = "bool" => out.responded = raw.responded
                    /\ raw.responseTime.s = <<"1", "2", "0">> => out.responseTime.n = 120
                    /\ raw.responseTime.s = <<"0">> => out.responseTime.n = 0
                    /\ raw.responseTime.t = "int" => out.responseTime = raw.responseTime

\* C11: on the legacy path every kept response-check entry reaches the
\* aggregation with a boolean responded and an integer responseTime: "Yes"
\* becomes true, any other string false, a numeric string its integer.
C11_LegacyCoerced == [](NativeTypes) /\ [][LegacyRecordCoerced]_vars

\* A group holds an entry that was stored as "No" (a false responded is
\* kept only as a string) and one whose time was stored as "0" (a zero time
\* is kept only as a string) with a positive responded.
C11_Witness ==
    \E k \in GroupKeys :
        /\ \E i \in 1..Len(raw_stats[k].response_checks) :
              raw_stats[k].response_checks[i].responded = PyBool(FALSE)
        /\ \E i \in 1..Len(raw_stats[k].response_checks) :
              /\ raw_stats[k].response_checks[i].responded = PyBool(TRUE)
              /\ raw_stats[k].response_checks[i].responseTime = PyInt(0)

(***************************************************************************)
(* Claims about the report's time windows                                  *)
(***************************************************************************)
\* The passes of one table's Yesterday and Previous Day columns.
Yesterday(t) == 3 * (t - 1) + 1
PreviousDay(t) == 3 * (t - 1) + 2

\* C12: the Yesterday window (36h to 12h ago) and the Previous Day window
\* (60h to 36h ago) are disjoint: no row of `connected` or `page_views`,
\* whatever its timestamp, is counted in both columns.
C12_WindowsDisjoint ==
    \A t \in 1..Len(WindowTables) :
        Len(wq_matched) >= PreviousDay(t) =>
            wq_matched[Yesterday(t)] \cap wq_matched[PreviousDay(t)] = {}

(***************************************************************************)
(* Claims about the record counts                                          *)
(***************************************************************************)
RowsOf(k) ==
    {row \in gs_stats : <<row.platform, row.propagation_channel_id, row.sponsor_id>> = k}

RecordCountSum == SumOver(gs_stats, [row \in gs_stats |-> row.record_count])

\* C13: one row per group, and every record newer than since_time that has
\* both identifiers adds exactly 1 to the record_count of exactly one row:
\* the record counts sum to the number of new records with both identifiers.
C13_EveryNewRecordCounted ==
    gs_pc = "done" =>
        /\ \A k \in GroupKeys : Cardinality(RowsOf(k)) <= 1
        /\ RecordCountSum = SumOver(GroupKeys, gs_held.selected) + gs_held.unselected

\* C13, for the records the three queries select (android version 1,
\* android version above 2, windows version above 1): each one that has both
\* identifiers adds exactly 1 to the count of its own group, with or without
\* valid response-checks, one that lacks an identifier adds nothing, and the
\* result has exactly one row per group that was counted, with that count.
C13_SelectedRecordsCounted ==
    /\ \A k \in GroupKeys :
          raw_stats[k].count + (IF gs_rec.active /\ gs_rec.key = k THEN 1 ELSE 0)
              = gs_held.selected[k]
    /\ gs_pc = "done" =>
          /\ \A k \in GroupKeys :
                IF gs_held.selected[k] = 0
                THEN RowsOf(k) = {}
                ELSE /\ Cardinality(RowsOf(k)) = 1
                     /\ \A row \in RowsOf(k) : row.record_count = gs_held.selected[k]
          /\ RecordCountSum = SumOver(GroupKeys, gs_held.selected)

\* The result holds a row counted once for a record without a valid
\* response-check, and a selected record that lacked an identifier was met.
C13_Witness ==
    /\ gs_pc = "done"
    /\ gs_held.lacking >= 1
    /\ \E row \in gs_stats : row.record_count = 1 /\ row.response_sample_count = 0

(***************************************************************************)
(* Claims about the handling of autoresponder entries                      *)
(***************************************************************************)
\* C14: an autoresponder entry leaves the store when the generator yields
\* it, before the consumer handles it: an entry that was yielded, that is
\* being handled, or whose handling failed is not in the queue and is never
\* yielded a second time, so a failed entry is not retried.
C14_YieldedNeverRetried ==
    /\ \A id \in 1..(ar_next_id - 1) :
          TimesYielded(id) >= 1 => (TimesYielded(id) = 1 /\ ~InQueue(id))
    /\ \A p \in Procs :
          ar_handling[p] # 0 => (TimesYielded(ar_handling[p]) = 1 /\ ~InQueue(ar_handling[p]))
    /\ \A id \in ar_failed : TimesYielded(id) = 1 /\ ~InQueue(id)

\* The handling of an entry failed and its consumer went on until its
\* generator found the queue empty; another process's generator yielded a
\* later entry only, and stopped.
C14_Witness ==
    \E p \in Procs, id \in ar_failed :
        /\ ar_yielded[p] = <<id>>
        /\ ar_iter[p] = "exhausted"
        /\ \E q \in Procs \ {p} :
              /\ ar_iter[q] = "exhausted"
              /\ Len(ar_yielded[q]) = 1
              /\ ar_yielded[q][1] > id

====
